---------------------------- MODULE Spec2Model ----------------------------
(***************************************************************************)
(* A model of postcode_scraper.go: the /search handler (postcodeHandler)   *)
(* and the scraper it calls (searchPostcodes).                             *)
(*                                                                         *)
(* Text is modelled character by character: a Go string is a sequence of   *)
(* one-character strings, so that trimming, splitting, formatting,         *)
(* substring search and JSON encoding are computed as the code computes    *)
(* them.                                                                   *)
(***************************************************************************)
EXTENDS Integers, Sequences, FiniteSets, TLC

(***************************************************************************)
(* String literals of the source                                           *)
(***************************************************************************)

\* const BASE_URL (line 23).
BASE_URL ==
    <<"h", "t", "t", "p", "s", ":", "/", "/", "a", "u", "s", "p", "o", "s", "t", ".",
      "c", "o", "m", ".", "a", "u", "/", "p", "o", "s", "t", "c", "o", "d", "e", "/">>

\* The text of the 400 reply (line 39).
MissingKeywordMessage ==
    <<"M", "i", "s", "s", "i", "n", "g", " ", "'", "k", "e", "y", "w", "o", "r", "d",
      "'", " ", "p", "a", "r", "a", "m", "e", "t", "e", "r", " ", "i", "n", " ", "t",
      "h", "e", " ", "q", "u", "e", "r", "y", " ", "s", "t", "r", "i", "n", "g", ".",
      " ", "E", "x", "a", "m", "p", "l", "e", ":", " ", "/", "s", "e", "a", "r", "c",
      "h", "?", "k", "e", "y", "w", "o", "r", "d", "=", "s", "y", "d", "n", "e", "y">>

\* The key of the map encoded at line 39.
ErrorKey ==
    <<"e", "r", "r", "o", "r">>

\* The literal returned at line 62.
EmptyKeywordBody ==
    <<"{", "\"", "e", "r", "r", "o", "r", "\"", ":", " ", "\"", "K", "e", "y", "w",
      "o", "r", "d", " ", "c", "a", "n", "n", "o", "t", " ", "b", "e", " ", "e", "m",
      "p", "t", "y", ".", "\"", "}">>

\* The format of line 76.
CreateRequestFormat ==
    <<"{", "\"", "e", "r", "r", "o", "r", "\"", ":", " ", "\"", "F", "a", "i", "l",
      "e", "d", " ", "t", "o", " ", "c", "r", "e", "a", "t", "e", " ", "r", "e", "q",
      "u", "e", "s", "t", ":", " ", "%", "s", "\"", "}">>

\* The format of line 84.
FetchFormat ==
    <<"{", "\"", "e", "r", "r", "o", "r", "\"", ":", " ", "\"", "F", "a", "i", "l",
      "e", "d", " ", "t", "o", " ", "f", "e", "t", "c", "h", " ", "t", "h", "e", " ",
      "p", "a", "g", "e", ":", " ", "%", "s", "\"", "}">>

\* The format of line 89.
StatusFormat ==
    <<"{", "\"", "e", "r", "r", "o", "r", "\"", ":", " ", "\"", "R", "e", "c", "e",
      "i", "v", "e", "d", " ", "n", "o", "n", "-", "O", "K", " ", "H", "T", "T", "P",
      " ", "s", "t", "a", "t", "u", "s", ":", " ", "%", "d", "\"", "}">>

\* The format of line 95.
ParseFormat ==
    <<"{", "\"", "e", "r", "r", "o", "r", "\"", ":", " ", "\"", "F", "a", "i", "l",
      "e", "d", " ", "t", "o", " ", "p", "a", "r", "s", "e", " ", "H", "T", "M", "L",
      ":", " ", "%", "s", "\"", "}">>

\* The format of line 156.
NoResultsFormat ==
    <<"{", "\"", "m", "e", "s", "s", "a", "g", "e", "\"", ":", " ", "\"", "N", "o",
      " ", "p", "o", "s", "t", "c", "o", "d", "e", "s", " ", "f", "o", "u", "n", "d",
      " ", "f", "o", "r", " ", "k", "e", "y", "w", "o", "r", "d", " ", "'", "%", "s",
      "'", ".", " ", "P", "l", "e", "a", "s", "e", " ", "v", "e", "r", "i", "f", "y",
      " ", "t", "h", "e", " ", "C", "S", "S", " ", "s", "e", "l", "e", "c", "t", "o",
      "r", "s", ".", "\"", "}">>

\* The first substring the handler looks for (line 51).
ErrorNeedle ==
    <<"\"", "e", "r", "r", "o", "r", "\"">>

\* The second substring the handler looks for (line 51).
MessageNeedle ==
    <<"\"", "m", "e", "s", "s", "a", "g", "e", "\"">>

\* json tag of PostcodeResult.Postcode (line 17).
PostcodeKey ==
    <<"p", "o", "s", "t", "c", "o", "d", "e">>

\* json tag of PostcodeResult.Suburb (line 18).
SuburbKey ==
    <<"s", "u", "b", "u", "r", "b">>

\* json tag of PostcodeResult.State (line 19).
StateKey ==
    <<"s", "t", "a", "t", "e">>

\* The indent argument of json.MarshalIndent (line 160).
Indent ==
    <<" ", " ", " ", " ">>

\* The operation net/http names in the error of a failed GET.
GetOp ==
    <<"G", "e", "t">>

\* The operation net/url names in the error of a rejected URL.
ParseOp ==
    <<"p", "a", "r", "s", "e">>

\* net/url's EscapeError, before the quoted escape.
InvalidEscapeText ==
    <<"i", "n", "v", "a", "l", "i", "d", " ", "U", "R", "L", " ", "e", "s", "c", "a",
      "p", "e", " ">>

(***************************************************************************)
(* Library functions the source calls (strings, fmt, encoding/json)        *)
(***************************************************************************)

\* http.StatusOK, http.StatusBadRequest, http.StatusInternalServerError.
StatusOK == 200

StatusBadRequest == 400

StatusInternalServerError == 500

\* unicode.IsSpace on the characters of the model.
IsSpace(c) == c \in {" ", "\t", "\n", "\r"}

RECURSIVE TrimLeft(_)
TrimLeft(s) ==
    IF s # <<>> /\ IsSpace(Head(s)) THEN TrimLeft(Tail(s)) ELSE s

RECURSIVE TrimRight(_)
TrimRight(s) ==
    IF s # <<>> /\ IsSpace(s[Len(s)])
    THEN TrimRight(SubSeq(s, 1, Len(s) - 1))
    ELSE s

\* strings.TrimSpace: leading and trailing white space removed.
TrimSpace(s) == TrimRight(TrimLeft(s))

UpperLetters ==
    <<"A", "B", "C", "D", "E", "F", "G", "H", "I", "J", "K", "L", "M",
      "N", "O", "P", "Q", "R", "S", "T", "U", "V", "W", "X", "Y", "Z">>

LowerLetters ==
    <<"a", "b", "c", "d", "e", "f", "g", "h", "i", "j", "k", "l", "m",
      "n", "o", "p", "q", "r", "s", "t", "u", "v", "w", "x", "y", "z">>

ToLowerChar(c) ==
    IF \E k \in DOMAIN UpperLetters : UpperLetters[k] = c
    THEN LowerLetters[CHOOSE k \in DOMAIN UpperLetters : UpperLetters[k] = c]
    ELSE c

\* strings.ToLower.
ToLower(s) == [k \in DOMAIN s |-> ToLowerChar(s[k])]

\* strings.Contains, for a non-empty substring.
Contains(s, sub) ==
    \E k \in 1..(Len(s) - Len(sub) + 1) : SubSeq(s, k, k + Len(sub) - 1) = sub

\* The index of the first occurrence of character c in s, 0 when there is none.
IndexOf(s, c) ==
    IF \E k \in DOMAIN s : s[k] = c
    THEN CHOOSE k \in DOMAIN s : s[k] = c /\ \A j \in 1..(k - 1) : s[j] # c
    ELSE 0

\* strings.Split(s, sep) for a one-character separator: every piece between
\* two separators, so n separators give n + 1 pieces.
RECURSIVE Split(_, _)
Split(s, sep) ==
    LET k == IndexOf(s, sep)
    IN  IF k = 0
        THEN <<s>>
        ELSE <<SubSeq(s, 1, k - 1)>> \o Split(SubSeq(s, k + 1, Len(s)), sep)

DecimalDigits == <<"0", "1", "2", "3", "4", "5", "6", "7", "8", "9">>

\* The %d verb on a non-negative int.
RECURSIVE Itoa(_)
Itoa(n) ==
    IF n < 10
    THEN <<DecimalDigits[n + 1]>>
    ELSE Itoa(n \div 10) \o <<DecimalDigits[(n % 10) + 1]>>

\* fmt.Sprintf(format, arg) for a format with one verb (%s or %d): the verb
\* is replaced by the text of the argument, which is copied as it is.
Sprintf(format, arg) ==
    LET k == CHOOSE j \in 1..(Len(format) - 1) :
                 format[j] = "%" /\ format[j + 1] \in {"s", "d"}
    IN  SubSeq(format, 1, k - 1) \o arg \o SubSeq(format, k + 2, Len(format))

\* The concatenation of a sequence of sequences.
RECURSIVE Flatten(_)
Flatten(ss) ==
    IF ss = <<>> THEN <<>>
    ELSE IF Len(ss) = 1 THEN ss[1]
    ELSE LET half == Len(ss) \div 2
         IN  Flatten(SubSeq(ss, 1, half)) \o Flatten(SubSeq(ss, half + 1, Len(ss)))

\* encoding/json's encoding of one character inside a string (HTML escaping
\* on, as Marshal and Encoder have it by default).
EscapeChar(c) ==
    CASE c = "\"" -> <<"\\", "\"">>
      [] c = "\\" -> <<"\\", "\\">>
      [] c = "\n" -> <<"\\", "n">>
      [] c = "\r" -> <<"\\", "r">>
      [] c = "\t" -> <<"\\", "t">>
      [] c = "<"  -> <<"\\", "u", "0", "0", "3", "c">>
      [] c = ">"  -> <<"\\", "u", "0", "0", "3", "e">>
      [] c = "&"  -> <<"\\", "u", "0", "0", "2", "6">>
      [] OTHER    -> <<c>>

\* encoding/json's encoding of a string value.
JSONString(s) ==
    <<"\"">> \o Flatten([k \in DOMAIN s |-> EscapeChar(s[k])]) \o <<"\"">>

\* json.NewEncoder(w).Encode(map[string]string{key: value}): the compact
\* object followed by a newline.
EncodeMap(key, value) ==
    <<"{">> \o JSONString(key) \o <<":">> \o JSONString(value) \o <<"}", "\n">>

\* One element of the array json.MarshalIndent(resultsList, "", "    ")
\* writes: the three fields in declaration order, one per line.
MarshalRecord(rec) ==
    Indent \o <<"{", "\n">>
    \o Indent \o Indent \o JSONString(PostcodeKey) \o <<":", " ">>
       \o JSONString(rec.Postcode) \o <<",", "\n">>
    \o Indent \o Indent \o JSONString(SuburbKey) \o <<":", " ">>
       \o JSONString(rec.Suburb) \o <<",", "\n">>
    \o Indent \o Indent \o JSONString(StateKey) \o <<":", " ">>
       \o JSONString(rec.State) \o <<"\n">>
    \o Indent \o <<"}">>

RECURSIVE MarshalElements(_)
MarshalElements(list) ==
    IF Len(list) = 1
    THEN MarshalRecord(list[1])
    ELSE MarshalRecord(Head(list)) \o <<",", "\n">> \o MarshalElements(Tail(list))

\* json.MarshalIndent(resultsList, "", "    ") of a slice of PostcodeResult.
MarshalIndent(list) ==
    IF list = <<>>
    THEN <<"[", "]">>
    ELSE <<"[", "\n">> \o MarshalElements(list) \o <<"\n", "]">>

(***************************************************************************)
(* Reading a body as JSON (RFC 8259), as a client of the API does.  Only   *)
(* objects whose member values are strings are read; any other text is     *)
(* reported as not well formed.  The bodies of the model are built from    *)
(* the formats above and texts that hold no brace, bracket or colon        *)
(* outside a quoted URL, so no other JSON value can appear in them.        *)
(***************************************************************************)

IsJSONSpace(c) == c \in {" ", "\t", "\n", "\r"}

HexDigits ==
    {"0", "1", "2", "3", "4", "5", "6", "7", "8", "9",
     "a", "b", "c", "d", "e", "f", "A", "B", "C", "D", "E", "F"}

\* The first position at or after k that holds no white space.
RECURSIVE SkipSpace(_, _)
SkipSpace(s, k) ==
    IF k <= Len(s) /\ IsJSONSpace(s[k]) THEN SkipSpace(s, k + 1) ELSE k

\* The character a two-character escape stands for.
Unescape(c) ==
    CASE c = "n" -> "\n"
      [] c = "r" -> "\r"
      [] c = "t" -> "\t"
      [] c = "b" -> "<BS>"
      [] c = "f" -> "<FF>"
      [] OTHER   -> c

\* The character a \uXXXX escape stands for, for the escapes encoding/json
\* writes; "<U>" stands for every other one.
UnicodeEscape(hex) ==
    CASE hex = <<"0", "0", "3", "c">> -> "<"
      [] hex = <<"0", "0", "3", "e">> -> ">"
      [] hex = <<"0", "0", "2", "6">> -> "&"
      [] OTHER -> "<U>"

\* The characters that end a run of plain characters inside a string.
IsSpecial(c) == c \in {"\"", "\\", "\n", "\r", "\t"}

\* The first position at or after k that holds a special character, the
\* position after the end when there is none.
NextSpecial(s, k) ==
    IF \E j \in k..Len(s) : IsSpecial(s[j])
    THEN CHOOSE j \in k..Len(s) :
             IsSpecial(s[j]) /\ \A h \in k..(j - 1) : ~IsSpecial(s[h])
    ELSE Len(s) + 1

\* Reads the characters of a JSON string from position k (just after the
\* opening quote) up to the closing quote: plain characters up to the next
\* special one, then the quote, an escape, or a control character, which a
\* string may not hold.
RECURSIVE ReadChars(_, _, _)
ReadChars(s, k, acc) ==
    LET j   == NextSpecial(s, k)
        got == acc \o SubSeq(s, k, j - 1)
        bad == [ok |-> FALSE, next |-> j, value |-> got]
    IN  IF j > Len(s) THEN bad
        ELSE IF s[j] = "\"" THEN [ok |-> TRUE, next |-> j + 1, value |-> got]
        ELSE IF s[j] # "\\" THEN bad
        ELSE IF /\ j + 1 <= Len(s)
                /\ s[j + 1] \in {"\"", "\\", "/", "b", "f", "n", "r", "t"}
        THEN ReadChars(s, j + 2, Append(got, Unescape(s[j + 1])))
        ELSE IF /\ j + 5 <= Len(s)
                /\ s[j + 1] = "u"
                /\ \A h \in (j + 2)..(j + 5) : s[h] \in HexDigits
        THEN ReadChars(s, j + 6, Append(got, UnicodeEscape(SubSeq(s, j + 2, j + 5))))
        ELSE bad

\* Reads a JSON string whose opening quote is expected at position k.
ReadString(s, k) ==
    IF k <= Len(s) /\ s[k] = "\""
    THEN ReadChars(s, k + 1, <<>>)
    ELSE [ok |-> FALSE, next |-> k, value |-> <<>>]

\* Reads the members of an object from position k (the start of a member).
RECURSIVE ReadMembers(_, _, _)
ReadMembers(s, k, acc) ==
    LET key   == ReadString(s, k)
        colon == SkipSpace(s, key.next)
        val   == ReadString(s, SkipSpace(s, colon + 1))
        after == SkipSpace(s, val.next)
        more  == Append(acc, [key |-> key.value, value |-> val.value])
        bad   == [ok |-> FALSE, next |-> k, fields |-> acc]
    IN  IF ~key.ok \/ colon > Len(s) THEN bad
        ELSE IF s[colon] # ":" \/ ~val.ok \/ after > Len(s) THEN bad
        ELSE IF s[after] = "}" THEN [ok |-> TRUE, next |-> after + 1, fields |-> more]
        ELSE IF s[after] = "," THEN ReadMembers(s, SkipSpace(s, after + 1), more)
        ELSE bad

\* The body read as a JSON text that is one object: ok tells whether it is
\* well formed, fields are its members in order.
ParseObject(s) ==
    LET open  == SkipSpace(s, 1)
        first == SkipSpace(s, open + 1)
        bad   == [ok |-> FALSE, fields |-> <<>>]
    IN  IF open > Len(s) THEN bad
        ELSE IF s[open] # "{" \/ first > Len(s) THEN bad
        ELSE IF s[first] = "}"
        THEN [ok |-> SkipSpace(s, first + 1) > Len(s), fields |-> <<>>]
        ELSE LET m == ReadMembers(s, first, <<>>)
             IN  IF m.ok /\ SkipSpace(s, m.next) > Len(s)
                 THEN [ok |-> TRUE, fields |-> m.fields]
                 ELSE bad

\* The body is a well-formed JSON object with exactly one member, named key.
IsObjectWithOnly(s, key) ==
    LET o == ParseObject(s)
    IN  o.ok /\ Len(o.fields) = 1 /\ o.fields[1].key = key

\* The value of that single member.
FieldValue(s) == ParseObject(s).fields[1].value

(***************************************************************************)
(* The URL of the outbound request and the errors of net/url and net/http  *)
(***************************************************************************)

\* strconv.Quote, which net/url's Error uses to print the URL.
Quote(s) ==
    <<"\"">>
    \o Flatten([k \in DOMAIN s |->
                   IF s[k] \in {"\"", "\\"} THEN <<"\\", s[k]>> ELSE <<s[k]>>])
    \o <<"\"">>

\* Line 66: the base URL followed by the keyword, trimmed and lowercased.
TargetURL(kw) == BASE_URL \o ToLower(TrimSpace(kw))

\* Position k of u starts a percent escape that is not % and two hex digits.
BadEscapeAt(u, k) ==
    /\ u[k] = "%"
    /\ ~(k + 2 <= Len(u) /\ u[k + 1] \in HexDigits /\ u[k + 2] \in HexDigits)

\* http.NewRequest (line 74) parses the URL and fails on a malformed
\* percent escape.
ValidURL(u) == \A k \in DOMAIN u : ~BadEscapeAt(u, k)

\* The text of the error of line 75: parse "<url>": invalid URL escape "<esc>".
NewRequestError(u) ==
    LET k   == CHOOSE j \in DOMAIN u :
                   BadEscapeAt(u, j) /\ \A h \in 1..(j - 1) : ~BadEscapeAt(u, h)
        esc == SubSeq(u, k, IF k + 2 <= Len(u) THEN k + 2 ELSE Len(u))
    IN  ParseOp \o <<" ">> \o Quote(u) \o <<":", " ">>
        \o InvalidEscapeText \o Quote(esc)

\* The URL as the request prints it: the characters a path may not hold
\* are percent-encoded.
PercentEncode(u) ==
    Flatten([k \in DOMAIN u |->
                CASE u[k] = " "  -> <<"%", "2", "0">>
                  [] u[k] = "\"" -> <<"%", "2", "2">>
                  [] u[k] = "\\" -> <<"%", "5", "C">>
                  [] OTHER       -> <<u[k]>>])

\* The text of the error of line 83: client.Do wraps every failure in a
\* *url.Error, which prints as Get "<url>": <cause>.
ClientDoError(u, cause) ==
    GetOp \o <<" ">> \o Quote(PercentEncode(u)) \o <<":", " ">> \o cause

(***************************************************************************)
(* The state                                                               *)
(***************************************************************************)

VARIABLES
    pc,                  \* where each request's handler stands
    keyword,             \* r.URL.Query().Get("keyword"): "" when absent or empty
    upstream,            \* what the upstream site answers for each URL
    url,                 \* searchPostcodes: url
    rows,                \* the rows doc.Find(...) selected, in document order
    i,                   \* the index Each passes to the callback next
    resultsList,         \* searchPostcodes: resultsList
    dataContainerFound,  \* searchPostcodes: dataContainerFound
    jsonOutput,          \* postcodeHandler: jsonOutput
    status,              \* the status line written to w, 0 while none is
    body,                \* the bytes written to w
    outcome,             \* how searchPostcodes returned, "none" before it has
    events               \* what each request has done so far, in order

vars ==
    <<pc, keyword, upstream, url, rows, i, resultsList, dataContainerFound,
      jsonOutput, status, body, outcome, events>>

\* The requests in flight; the server runs each on its own goroutine.
Requests == DOMAIN pc

(***************************************************************************)
(* searchPostcodes, the callback of Each (lines 106-148)                   *)
(***************************************************************************)

\* Line 110: the callback returns at once for the first selected row.
SkipRow(idx) == idx = 0

\* Line 118: the row has a postcode cell and a suburb cell.
HasColumns(cells) == Len(cells) >= 2

\* Lines 126-134: the part before the first comma, trimmed.
SuburbOf(fullSuburbText) ==
    LET parts == Split(fullSuburbText, ",")
    IN  IF Len(parts) >= 1 THEN TrimSpace(parts[1]) ELSE <<>>

\* StateOf with the last part of the split taken for the state.
StateOfLastPart(fullSuburbText) ==
    LET parts == Split(fullSuburbText, ",")
    IN  IF Len(parts) >= 2 THEN TrimSpace(parts[Len(parts)]) ELSE <<>>

\* Lines 126-138: the second part of the split, trimmed, "" without one.
StateOf(fullSuburbText) ==
    LET parts == Split(fullSuburbText, ",")
    IN  IF Len(parts) >= 2 THEN TrimSpace(parts[2]) ELSE <<>>

\* Lines 120-138, 141-145: the record of a row with at least two cells.
RowRecord(cells) ==
    LET postcodeText   == TrimSpace(cells[1])
        fullSuburbText == TrimSpace(cells[2])
    IN  [Postcode |-> postcodeText,
         Suburb   |-> SuburbOf(fullSuburbText),
         State    |-> StateOf(fullSuburbText)]

\* KeepRecord without the test of the suburb.
KeepRecordPostcodeOnly(rec) == rec.Postcode # <<>>

\* Line 140: the record is appended only with a postcode and a suburb.
KeepRecord(rec) == rec.Postcode # <<>> /\ rec.Suburb # <<>>

\* NewResultsList with one slice shared by all calls: a call starts from what
\* another call has collected.
SharedResultsList(r) ==
    IF \E q \in Requests : q # r
    THEN resultsList[CHOOSE q \in Requests : q # r]
    ELSE <<>>

\* Line 98: each call starts from an empty slice of its own.
NewResultsList(r) == <<>>

\* Line 106: the rows of every table the selector matches, in document
\* order, as one selection.  first marks the first row of its table; the
\* code never reads it.
RECURSIVE Selection(_)
Selection(tables) ==
    IF tables = <<>>
    THEN <<>>
    ELSE [k \in DOMAIN Head(tables) |-> [cells |-> Head(tables)[k], first |-> k = 1]]
         \o Selection(Tail(tables))

(***************************************************************************)
(* postcodeHandler                                                         *)
(***************************************************************************)

\* ReplyStatus without the search for "error".
ReplyStatusMessageOnly(output) ==
    IF Contains(output, MessageNeedle) THEN StatusInternalServerError ELSE StatusOK

\* Lines 51-55: 500 when the output holds "error" or "message" with the
\* quotes, and the 200 that Write implies otherwise.
ReplyStatus(output) ==
    IF Contains(output, ErrorNeedle) \/ Contains(output, MessageNeedle)
    THEN StatusInternalServerError
    ELSE StatusOK

\* HandlerMissingKeyword without its return: the handler goes on to the delay.
HandlerMissingKeywordNoReturn(r) ==
    /\ pc[r] = "recv"
    /\ keyword[r] = <<>>
    /\ status' = [status EXCEPT ![r] = StatusBadRequest]
    /\ body' = [body EXCEPT ![r] = EncodeMap(ErrorKey, MissingKeywordMessage)]
    /\ events' = [events EXCEPT ![r] = @ \o <<"response", "delay">>]
    /\ pc' = [pc EXCEPT ![r] = "search"]
    /\ UNCHANGED <<outcome, keyword, upstream, url, rows, i, resultsList,
                   dataContainerFound, jsonOutput>>

\* Lines 36-41: no keyword: 400 and the encoded error, and the handler returns.
HandlerMissingKeyword(r) ==
    /\ pc[r] = "recv"
    /\ keyword[r] = <<>>
    /\ status' = [status EXCEPT ![r] = StatusBadRequest]
    /\ body' = [body EXCEPT ![r] = EncodeMap(ErrorKey, MissingKeywordMessage)]
    /\ events' = [events EXCEPT ![r] = Append(@, "response")]
    /\ pc' = [pc EXCEPT ![r] = "done"]
    /\ UNCHANGED <<outcome, keyword, upstream, url, rows, i, resultsList,
                   dataContainerFound, jsonOutput>>

\* Line 44: the delay before the scraper is called.
HandlerSleep(r) ==
    /\ pc[r] = "recv"
    /\ keyword[r] # <<>>
    /\ events' = [events EXCEPT ![r] = Append(@, "delay")]
    /\ pc' = [pc EXCEPT ![r] = "search"]
    /\ UNCHANGED <<outcome, keyword, upstream, url, rows, i, resultsList,
                   dataContainerFound, jsonOutput, status, body>>

\* Lines 51-55: the status is chosen from the text of the output and the
\* output is written as it is.
HandlerReply(r) ==
    /\ pc[r] = "reply"
    /\ status' = [status EXCEPT ![r] = ReplyStatus(jsonOutput[r])]
    /\ body' = [body EXCEPT ![r] = jsonOutput[r]]
    /\ events' = [events EXCEPT ![r] = Append(@, "response")]
    /\ pc' = [pc EXCEPT ![r] = "done"]
    /\ UNCHANGED <<outcome, keyword, upstream, url, rows, i, resultsList,
                   dataContainerFound, jsonOutput>>

(***************************************************************************)
(* searchPostcodes                                                         *)
(***************************************************************************)

\* AfterReturn with the request sent again instead of the return.
RetryInsteadOfReturn == "do"

\* Where a request goes after searchPostcodes returns: back in the handler.
AfterReturn == "reply"

\* Lines 61-77: what searchPostcodes returns before any fetch, if it does.
EarlyReturn(kw) ==
    IF kw = <<>>
    THEN [returns |-> TRUE, output |-> EmptyKeywordBody]
    ELSE IF ~ValidURL(TargetURL(kw))
    THEN [returns |-> TRUE,
          output  |-> Sprintf(CreateRequestFormat, NewRequestError(TargetURL(kw)))]
    ELSE [returns |-> FALSE, output |-> <<>>]

\* Lines 61-63, 74-77: the keyword is empty or the request cannot be built.
SearchFailsEarly(r) ==
    /\ pc[r] = "search"
    /\ EarlyReturn(keyword[r]).returns
    /\ url' = [url EXCEPT ![r] = TargetURL(keyword[r])]
    /\ jsonOutput' = [jsonOutput EXCEPT ![r] = EarlyReturn(keyword[r]).output]
    /\ outcome' = [outcome EXCEPT ![r] = "Failure"]
    /\ pc' = [pc EXCEPT ![r] = AfterReturn]
    /\ UNCHANGED <<keyword, upstream, rows, i, resultsList,
                   dataContainerFound, status, body, events>>

\* Lines 66-80: the URL and the request are built.
SearchBuildsRequest(r) ==
    /\ pc[r] = "search"
    /\ ~EarlyReturn(keyword[r]).returns
    /\ url' = [url EXCEPT ![r] = TargetURL(keyword[r])]
    /\ pc' = [pc EXCEPT ![r] = "do"]
    /\ UNCHANGED <<outcome, keyword, upstream, rows, i, resultsList,
                   dataContainerFound, jsonOutput, status, body, events>>

\* Lines 82-85: client.Do fails.
ClientDoFails(r) ==
    /\ pc[r] = "do"
    /\ upstream[url[r]].kind = "neterr"
    /\ events' = [events EXCEPT ![r] = Append(@, "fetch")]
    /\ jsonOutput' = [jsonOutput EXCEPT ![r] =
           Sprintf(FetchFormat, ClientDoError(url[r], upstream[url[r]].err))]
    /\ outcome' = [outcome EXCEPT ![r] = "Failure"]
    /\ pc' = [pc EXCEPT ![r] = AfterReturn]
    /\ UNCHANGED <<keyword, upstream, url, rows, i, resultsList,
                   dataContainerFound, status, body>>

\* Lines 82-90: the upstream answers with a status other than 200.
NonOKStatus(r) ==
    /\ pc[r] = "do"
    /\ upstream[url[r]].kind = "http"
    /\ upstream[url[r]].status # StatusOK
    /\ events' = [events EXCEPT ![r] = Append(@, "fetch")]
    /\ jsonOutput' = [jsonOutput EXCEPT ![r] =
           Sprintf(StatusFormat, Itoa(upstream[url[r]].status))]
    /\ outcome' = [outcome EXCEPT ![r] = "Failure"]
    /\ pc' = [pc EXCEPT ![r] = AfterReturn]
    /\ UNCHANGED <<keyword, upstream, url, rows, i, resultsList,
                   dataContainerFound, status, body>>

\* Lines 82-96: 200, and reading the body fails while goquery parses it.
ParseFails(r) ==
    /\ pc[r] = "do"
    /\ upstream[url[r]].kind = "http"
    /\ upstream[url[r]].status = StatusOK
    /\ upstream[url[r]].err # <<>>
    /\ events' = [events EXCEPT ![r] = Append(@, "fetch")]
    /\ jsonOutput' = [jsonOutput EXCEPT ![r] =
           Sprintf(ParseFormat, upstream[url[r]].err)]
    /\ outcome' = [outcome EXCEPT ![r] = "Failure"]
    /\ pc' = [pc EXCEPT ![r] = AfterReturn]
    /\ UNCHANGED <<keyword, upstream, url, rows, i, resultsList,
                   dataContainerFound, status, body>>

\* Lines 82-106: 200 and a parsed document; the rows are selected.
ParseSucceeds(r) ==
    /\ pc[r] = "do"
    /\ upstream[url[r]].kind = "http"
    /\ upstream[url[r]].status = StatusOK
    /\ upstream[url[r]].err = <<>>
    /\ events' = [events EXCEPT ![r] = Append(@, "fetch")]
    /\ rows' = [rows EXCEPT ![r] = Selection(upstream[url[r]].tables)]
    /\ i' = [i EXCEPT ![r] = 0]
    /\ resultsList' = [resultsList EXCEPT ![r] = NewResultsList(r)]
    /\ dataContainerFound' = [dataContainerFound EXCEPT ![r] = FALSE]
    /\ pc' = [pc EXCEPT ![r] = "each"]
    /\ UNCHANGED <<outcome, keyword, upstream, url, jsonOutput, status, body>>

\* Lines 106-148: one call of the callback, for row i[r] of the selection.
EachRow(r) ==
    /\ pc[r] = "each"
    /\ i[r] < Len(rows[r])
    /\ dataContainerFound' = [dataContainerFound EXCEPT ![r] = TRUE]
    /\ LET cells == rows[r][i[r] + 1].cells
       IN  resultsList' = [resultsList EXCEPT ![r] =
               IF /\ ~SkipRow(i[r])
                  /\ HasColumns(cells)
                  /\ KeepRecord(RowRecord(cells))
               THEN Append(@, RowRecord(cells))
               ELSE @]
    /\ i' = [i EXCEPT ![r] = @ + 1]
    /\ UNCHANGED <<outcome, pc, keyword, upstream, url, rows, jsonOutput, status, body,
                   events>>

\* Lines 150-165: after the last row, the message or the marshalled list.
SearchReturns(r) ==
    /\ pc[r] = "each"
    /\ i[r] = Len(rows[r])
    /\ jsonOutput' = [jsonOutput EXCEPT ![r] =
           IF Len(resultsList[r]) = 0
           THEN Sprintf(NoResultsFormat, keyword[r])
           ELSE MarshalIndent(resultsList[r])]
    /\ outcome' = [outcome EXCEPT ![r] =
           IF Len(resultsList[r]) = 0 THEN "Empty" ELSE "Success"]
    /\ pc' = [pc EXCEPT ![r] = AfterReturn]
    /\ UNCHANGED <<keyword, upstream, url, rows, i, resultsList,
                   dataContainerFound, status, body, events>>

Next ==
    \/ \E r \in Requests : HandlerMissingKeyword(r)
    \/ \E r \in Requests : HandlerSleep(r)
    \/ \E r \in Requests : SearchFailsEarly(r)
    \/ \E r \in Requests : SearchBuildsRequest(r)
    \/ \E r \in Requests : ClientDoFails(r)
    \/ \E r \in Requests : NonOKStatus(r)
    \/ \E r \in Requests : ParseFails(r)
    \/ \E r \in Requests : ParseSucceeds(r)
    \/ \E r \in Requests : EachRow(r)
    \/ \E r \in Requests : SearchReturns(r)
    \/ \E r \in Requests : HandlerReply(r)

\* A cause of a failed fetch.
NoSuchHost ==
    <<"d", "i", "a", "l", " ", "t", "c", "p", ":", " ", "l", "o", "o", "k", "u", "p",
      " ", "a", "u", "s", "p", "o", "s", "t", ".", "c", "o", "m", ".", "a", "u", ":",
      " ", "n", "o", " ", "s", "u", "c", "h", " ", "h", "o", "s", "t">>

\* A cause of a failed read of the response body.
UnexpectedEOF ==
    <<"u", "n", "e", "x", "p", "e", "c", "t", "e", "d", " ", "E", "O", "F">>

Sydney ==
    <<"S", "y", "d", "n", "e", "y">>

SydneyPadded ==
    <<" ", "s", "y", "d", "n", "e", "y", " ">>

Yass ==
    <<"Y", "a", "s", "s">>

Ayr ==
    <<"A", "y", "r">>

Bowen ==
    <<"B", "o", "w", "e", "n">>

Moe ==
    <<"M", "o", "e">>

Percent ==
    <<"%">>

T2000 ==
    <<"2", "0", "0", "0">>

T2055 ==
    <<" ", "2", "0", "5", "5", " ">>

T2060 ==
    <<"2", "0", "6", "0">>

TPostcode ==
    <<"P", "o", "s", "t", "c", "o", "d", "e">>

TSuburb ==
    <<"S", "u", "b", "u", "r", "b">>

TSydney ==
    <<"S", "Y", "D", "N", "E", "Y", ",", " ", "N", "S", "W">>

TNorthSydney ==
    <<" ", "N", "O", "R", "T", "H", " ", "S", "Y", "D", "N", "E", "Y", ",", " ", "N",
      "S", "W", " ">>

TNoSuburb ==
    <<" ", ",", " ", "N", "S", "W">>

TError ==
    <<"e", "r", "r", "o", "r">>

TBlank ==
    <<" ", " ">>

TCategory ==
    <<"D", "e", "l", "i", "v", "e", "r", "y", " ", "A", "r", "e", "a">>

(***************************************************************************)
(* Inputs: keywords, upstream answers, pages                               *)
(***************************************************************************)

\* Bounds of the model.
NumRequests == 2

MaxKeywordLen == 3

MaxRows == 4

MaxTextLen == 5

\* Every text of at most n characters over chars.
AllTexts(chars, n) == UNION {[1..k -> chars] : k \in 0..n}

\* client.Do fails with this cause.
NetError(cause) ==
    [kind |-> "neterr", status |-> 0, err |-> cause, tables |-> <<>>]

\* The upstream answers with this status; err, when not empty, is the
\* failure of reading its body; tables are the tables of the page that
\* match table.fn_tablePostcodeList, each the cells (td) of its rows (tr).
Answer(code, err, tables) ==
    [kind |-> "http", status |-> code, err |-> err, tables |-> tables]

HeaderOfTh == <<>>

HeaderOfTd == <<TPostcode, TSuburb>>

SydneyTable ==
    <<HeaderOfTh, <<T2000, TSydney, TCategory>>, <<T2060>>,
      <<T2055, TNorthSydney, TCategory>>>>

\* The characters keywords are drawn from: a letter, a space, and the
\* characters that matter to a URL and to a JSON string.
KeywordChars == {"S", " ", "\"", "\\", "%"}

\* Statuses other than 200 the upstream may answer with.
OtherStatuses == {201, 301, 404, 500, 503}

\* Answers that make every path of searchPostcodes happen; an answer with
\* another status than 200 carries a page with results all the same.
SampleAnswers ==
    {NetError(NoSuchHost),
     Answer(200, UnexpectedEOF, <<>>),
     Answer(200, <<>>, <<>>),
     Answer(200, <<>>, <<<<HeaderOfTh, <<TBlank, TSydney>>>>>>),
     Answer(200, <<>>, <<SydneyTable>>)}
    \cup {Answer(code, <<>>, <<SydneyTable>>) : code \in OtherStatuses}

\* The rows pages are built from.
RowSamples ==
    {HeaderOfTh,
     HeaderOfTd,
     <<T2055, TNorthSydney, TCategory>>,
     <<T2000, TError>>,
     <<TBlank, TSydney>>,
     <<T2060, TNoSuburb>>}

\* The postcode cells and the characters of the suburb cells of SpecRows.
PostcodeSamples == {<<>>, TBlank, T2055}

SuburbChars == {"a", " ", ","}

\* Every page of at most n rows over the samples, as one table or as two.
PagesOf(n) ==
    LET lists == UNION {[1..k -> RowSamples] : k \in 0..n}
    IN  {<<t>> : t \in lists}
        \cup UNION {{<<SubSeq(t, 1, k), SubSeq(t, k + 1, Len(t))>> :
                         k \in 1..(Len(t) - 1)} : t \in lists}

(***************************************************************************)
(* Initial states and specifications                                       *)
(***************************************************************************)

\* The URLs the requests with these keywords fetch.
FetchedURLs(kws) ==
    {TargetURL(kws[r]) : r \in {q \in DOMAIN kws : ~EarlyReturn(kws[q]).returns}}

\* The requests have arrived with keywords kws and the upstream site is
\* site; no handler has run yet.
Arrived(kws, site) ==
    /\ pc = [r \in DOMAIN kws |-> "recv"]
    /\ keyword = kws
    /\ upstream = site
    /\ url = [r \in DOMAIN kws |-> <<>>]
    /\ rows = [r \in DOMAIN kws |-> <<>>]
    /\ i = [r \in DOMAIN kws |-> 0]
    /\ resultsList = [r \in DOMAIN kws |-> <<>>]
    /\ dataContainerFound = [r \in DOMAIN kws |-> FALSE]
    /\ jsonOutput = [r \in DOMAIN kws |-> <<>>]
    /\ status = [r \in DOMAIN kws |-> 0]
    /\ body = [r \in DOMAIN kws |-> <<>>]
    /\ outcome = [r \in DOMAIN kws |-> "none"]
    /\ events = [r \in DOMAIN kws |-> <<>>]

\* One request with keyword kw, which the upstream answers with answer.
OneRequest(kw, answer) ==
    Arrived(<<kw>>, [u \in FetchedURLs(<<kw>>) |-> answer])

\* A fixed upstream site: what it answers for each URL.
SampleSite ==
    [u \in {TargetURL(Sydney), TargetURL(Yass), TargetURL(Ayr),
            TargetURL(Bowen), TargetURL(Moe)} |->
        CASE u = TargetURL(Sydney) -> Answer(200, <<>>, <<SydneyTable>>)
          [] u = TargetURL(Yass)   -> Answer(200, <<>>, <<>>)
          [] u = TargetURL(Ayr)    -> Answer(404, <<>>, <<SydneyTable>>)
          [] u = TargetURL(Bowen)  -> NetError(NoSuchHost)
          [] u = TargetURL(Moe)    -> Answer(200, UnexpectedEOF, <<>>)]

SiteKeywords == {<<>>, Percent, Sydney, SydneyPadded, Yass, Ayr, Bowen, Moe}

\* NumRequests concurrent requests against the fixed site.
Init ==
    \E kws \in [1..NumRequests -> SiteKeywords] :
        Arrived(kws, [u \in FetchedURLs(kws) |-> SampleSite[u]])

Spec == Init /\ [][Next]_vars

\* One request, every keyword of at most MaxKeywordLen characters.
InitKeywords ==
    \E kw \in AllTexts(KeywordChars, MaxKeywordLen), answer \in SampleAnswers :
        OneRequest(kw, answer)

SpecKeywords == InitKeywords /\ [][Next]_vars

\* One request, every page of at most MaxRows rows over the row samples.
InitPages ==
    \/ \E kw \in {<<>>, Percent, Sydney}, answer \in SampleAnswers :
           OneRequest(kw, answer)
    \/ \E page \in PagesOf(MaxRows) :
           OneRequest(Sydney, Answer(200, <<>>, page))

SpecPages == InitPages /\ [][Next]_vars

\* One request, a table of a header and one row, whose suburb cell is any
\* text of at most MaxTextLen characters.
InitRows ==
    \/ \E kw \in {<<>>, Percent, Sydney}, answer \in SampleAnswers :
           OneRequest(kw, answer)
    \/ \E postcode \in PostcodeSamples, text \in AllTexts(SuburbChars, MaxTextLen) :
           OneRequest(Sydney,
                      Answer(200, <<>>, <<<<HeaderOfTh, <<postcode, text>>>>>>))

SpecRows == InitRows /\ [][Next]_vars

(***************************************************************************)
(* Properties                                                              *)
(***************************************************************************)

MessageKey == <<"m", "e", "s", "s", "a", "g", "e">>

\* Request r has done e.
Did(r, e) == \E k \in DOMAIN events[r] : events[r][k] = e

\* The body is a well-formed JSON object with a member named key.
HasField(s, key) ==
    LET o == ParseObject(s)
    IN  o.ok /\ \E k \in DOMAIN o.fields : o.fields[k].key = key

\* C1: a request without a keyword, or with an empty one, is answered 400
\* with a JSON object that has an error member; the handler returns before
\* the delay, searchPostcodes is never called and nothing is fetched.
C1_MissingKeywordIs400 ==
    \A r \in Requests :
        keyword[r] = <<>> =>
            /\ pc[r] \in {"recv", "done"}
            /\ ~Did(r, "delay") /\ ~Did(r, "fetch")
            /\ outcome[r] = "none" /\ jsonOutput[r] = <<>>
            /\ pc[r] = "done" =>
                   /\ status[r] = 400
                   /\ HasField(body[r], ErrorKey)
                   /\ events[r] = <<"response">>

C1_Witness ==
    \E r \in Requests : keyword[r] = <<>> /\ pc[r] = "done" /\ status[r] = 400

\* The answer the upstream gave request r, once r has fetched.
AnswerOf(r) == upstream[url[r]]

\* C7: when the upstream answers with a status other than 200, the reply is
\* 500, its body is a JSON object whose error member holds that status code,
\* the page is not parsed and no record is produced.
C7_NonOKStatusIs500 ==
    \A r \in Requests :
        (Did(r, "fetch") /\ AnswerOf(r).kind = "http" /\ AnswerOf(r).status # 200) =>
            /\ pc[r] \in {"reply", "done"}
            /\ outcome[r] = "Failure"
            /\ rows[r] = <<>> /\ i[r] = 0 /\ resultsList[r] = <<>>
            /\ pc[r] = "done" =>
                   /\ status[r] = 500
                   /\ IsObjectWithOnly(body[r], ErrorKey)
                   /\ Contains(FieldValue(body[r]), Itoa(AnswerOf(r).status))

C7_Witness ==
    \E r \in Requests :
        /\ pc[r] = "done" /\ Did(r, "fetch")
        /\ AnswerOf(r).kind = "http" /\ AnswerOf(r).status = 503
        /\ status[r] = 500

\* C10: a request with a keyword sleeps, then fetches at most once, then
\* replies exactly once; after a failure nothing more is fetched and the
\* failure is reported once.
C10_DelayFetchReply ==
    \A r \in Requests :
        keyword[r] # <<>> =>
            /\ events[r] \in {<<>>, <<"delay">>, <<"delay", "fetch">>,
                              <<"delay", "response">>,
                              <<"delay", "fetch", "response">>}
            /\ pc[r] = "done" <=> Did(r, "response")
            /\ pc[r] = "done" => status[r] # 0
            /\ outcome[r] = "Failure" => pc[r] \in {"reply", "done"}
            /\ (outcome[r] = "Failure" /\ pc[r] = "done") =>
                   status[r] = 500 /\ body[r] = jsonOutput[r]

C10_Witness ==
    \E r, q \in Requests :
        /\ pc[r] = "done" /\ outcome[r] = "Failure"
        /\ events[r] = <<"delay", "fetch", "response">>
        /\ pc[q] = "done" /\ outcome[q] = "Failure"
        /\ events[q] = <<"delay", "response">>

\* The records searchPostcodes collects from a selection, run from the
\* first row to the last without interruption.
RECURSIVE CollectFrom(_, _, _)
CollectFrom(sel, idx, acc) ==
    IF idx = Len(sel)
    THEN acc
    ELSE CollectFrom(sel, idx + 1,
             IF /\ ~SkipRow(idx)
                /\ HasColumns(sel[idx + 1].cells)
                /\ KeepRecord(RowRecord(sel[idx + 1].cells))
             THEN Append(acc, RowRecord(sel[idx + 1].cells))
             ELSE acc)

\* What searchPostcodes(kw) returns when it runs alone against site.
RunAlone(kw, site) ==
    IF EarlyReturn(kw).returns THEN EarlyReturn(kw).output
    ELSE LET u == TargetURL(kw)
             a == site[u]
             found == CollectFrom(Selection(a.tables), 0, <<>>)
         IN  IF a.kind = "neterr" THEN Sprintf(FetchFormat, ClientDoError(u, a.err))
             ELSE IF a.status # StatusOK THEN Sprintf(StatusFormat, Itoa(a.status))
             ELSE IF a.err # <<>> THEN Sprintf(ParseFormat, a.err)
             ELSE IF found = <<>> THEN Sprintf(NoResultsFormat, kw)
             ELSE MarshalIndent(found)

\* C9: searchPostcodes keeps no state across calls: against a fixed
\* upstream, however the calls interleave, each returns what it returns run
\* alone, and calls with the same keyword return the same output.
C9_NoStateAcrossCalls ==
    \A r \in Requests :
        (pc[r] \in {"reply", "done"} /\ outcome[r] # "none") =>
            /\ jsonOutput[r] = RunAlone(keyword[r], upstream)
            /\ \A q \in Requests :
                   (pc[q] \in {"reply", "done"} /\ keyword[q] = keyword[r]) =>
                       /\ jsonOutput[q] = jsonOutput[r]
                       /\ resultsList[q] = resultsList[r]

C9_Witness ==
    \E r, q \in Requests :
        /\ r # q
        /\ keyword[r] = keyword[q]
        /\ pc[r] = "done" /\ pc[q] = "each" /\ i[q] = 2
        /\ Len(resultsList[r]) = 2

\* The text of a suburb cell before its first comma, trimmed; the whole
\* trimmed text when there is no comma.
BeforeFirstComma(text) ==
    LET t == TrimSpace(text)
        k == IndexOf(t, ",")
    IN  TrimSpace(IF k = 0 THEN t ELSE SubSeq(t, 1, k - 1))

\* All the text of a suburb cell after its first comma, trimmed; "" when
\* there is no comma.
AfterFirstComma(text) ==
    LET t == TrimSpace(text)
        k == IndexOf(t, ",")
    IN  IF k = 0 THEN <<>> ELSE TrimSpace(SubSeq(t, k + 1, Len(t)))

\* The text of a suburb cell between its first comma and its second (its
\* end when there is no second), trimmed; "" when there is no comma.
BetweenCommas(text) ==
    LET rest == AfterFirstComma(text)
        k    == IndexOf(rest, ",")
    IN  IF IndexOf(TrimSpace(text), ",") = 0 THEN <<>>
        ELSE IF k = 0 THEN rest
        ELSE TrimSpace(SubSeq(rest, 1, k - 1))

\* A row qualifies with two cells or more, a postcode and a suburb.
Qualifies(cells) ==
    /\ Len(cells) >= 2
    /\ TrimSpace(cells[1]) # <<>>
    /\ BeforeFirstComma(cells[2]) # <<>>

\* The rows of a selection that qualify, in order.
RECURSIVE QualifyingRows(_)
QualifyingRows(sel) ==
    IF sel = <<>> THEN <<>>
    ELSE (IF Qualifies(Head(sel).cells) THEN <<Head(sel)>> ELSE <<>>)
         \o QualifyingRows(Tail(sel))

\* The rows after the first row of the selection, the header row.
DataRows(sel) == IF sel = <<>> THEN <<>> ELSE Tail(sel)

\* Request r was answered 200 with a body that parsed.
Parsed(r) ==
    /\ Did(r, "fetch")
    /\ AnswerOf(r).kind = "http" /\ AnswerOf(r).status = 200
    /\ AnswerOf(r).err = <<>>

\* C4 as stated: the suburb of a record is the trimmed text before the
\* first comma of its row's suburb cell and its state is all the trimmed
\* text after that comma, further commas included ("" without a comma).
C4_StateIsAllAfterFirstComma ==
    \A r \in Requests :
        outcome[r] = "Success" =>
            LET from == QualifyingRows(DataRows(rows[r]))
            IN  /\ Len(resultsList[r]) = Len(from)
                /\ \A k \in DOMAIN from :
                       /\ resultsList[r][k].Suburb = BeforeFirstComma(from[k].cells[2])
                       /\ resultsList[r][k].State = AfterFirstComma(from[k].cells[2])

\* C4 amended: the suburb of a record is the trimmed text before the first
\* comma of its row's suburb cell and its state is the trimmed text between
\* the first comma and the second, or the end of the text when there is no
\* second comma; without a comma the suburb is the whole trimmed text and
\* the state is "".
C4_StateIsSecondPart ==
    \A r \in Requests :
        outcome[r] = "Success" =>
            LET from == QualifyingRows(DataRows(rows[r]))
            IN  /\ Len(resultsList[r]) = Len(from)
                /\ \A k \in DOMAIN from :
                       /\ resultsList[r][k].Suburb = BeforeFirstComma(from[k].cells[2])
                       /\ resultsList[r][k].State = BetweenCommas(from[k].cells[2])

C4_Witness ==
    \E r \in Requests :
        /\ pc[r] = "done" /\ outcome[r] = "Success"
        /\ Len(rows[r]) = 2
        /\ Len(Split(rows[r][2].cells[2], ",")) = 3
        /\ resultsList[r][1].State # <<>>
        /\ resultsList[r][1].State # AfterFirstComma(rows[r][2].cells[2])

C2_SuccessIs200 ==
    \A r \in Requests :
        (pc[r] = "done" /\ outcome[r] = "Success") =>
            /\ status[r] = 200
            /\ body[r] = MarshalIndent(resultsList[r])

\* C3: every body searchPostcodes returns on a Failure or an Empty outcome
\* is a well-formed JSON object with exactly one member, error for a Failure
\* and message for Empty, whatever keyword or error text it holds.
C3_BodiesAreJSONObjects ==
    \A r \in Requests :
        /\ outcome[r] = "Failure" => IsObjectWithOnly(jsonOutput[r], ErrorKey)
        /\ outcome[r] = "Empty" => IsObjectWithOnly(jsonOutput[r], MessageKey)

\* C6: when the page is fetched and parsed and no row qualifies, also when
\* the selector matches no row, the reply is 500 and its body has a message
\* member that holds the keyword as the caller gave it; the body is the
\* same whether the selector matched rows or not.
C6_EmptyIs500WithKeyword ==
    \A r \in Requests :
        (pc[r] = "done" /\ outcome[r] = "Empty") =>
            /\ status[r] = 500
            /\ body[r] = Sprintf(NoResultsFormat, keyword[r])
            /\ HasField(body[r], MessageKey)
            /\ Contains(FieldValue(body[r]), keyword[r])

\* C8: the first row of a table is never turned into a record, whatever its
\* cells hold and however many tables the selector matches.
C8_HeaderRowsExcluded ==
    [][\A r \in Requests :
           (/\ pc[r] = "each"
            /\ i[r] < Len(rows[r])
            /\ i'[r] = i[r] + 1
            /\ rows[r][i[r] + 1].first) => resultsList'[r] = resultsList[r]]_vars

=============================================================================
